---- MODULE Spec2Model ----
(***************************************************************************)
(* ProcessingScreen (pages/ProcessingScreen.js) of SimplyLegal: the status *)
(* poller, the step ratchet, the target progress and the smooth progress   *)
(* animation, as one state machine.                                        *)
(*                                                                         *)
(* Time is discrete: one unit of `now` is 600 ms, the period of the        *)
(* progress interval (Date.now() and performance.now() read the same       *)
(* clock).  A timeout runs at the first instant of the clock that is not   *)
(* before its delay; an animation frame runs at every instant before any   *)
(* other callback.  Progress values are kept in tenths of a percent (the   *)
(* fallback ticker adds 0.3), so 1000 is 100%.  A React commit (render,    *)
(* render-phase updates, passive effects and the re-render they cause) is  *)
(* one atomic step; the state updates of one handler are batched into one  *)
(* commit.                                                                 *)
(***************************************************************************)
EXTENDS Integers, Sequences, FiniteSets, TLC

\* ------------------------------------------------------------------ bounds
MaxTime == 7           \* the clock stops MaxTime units after the start
MaxLoops == 2          \* runs of the polling effect (1 + changes of docId)
MaxRequests == 3       \* status requests issued in one behaviour
WarmTicks == 262       \* ticks of the progress interval before a late start
MaxLatency == 0        \* a status request is settled within MaxLatency units

\* --------------------------------------------------------------- constants
MsPerUnit == 600       \* one unit of the clock, in milliseconds
Scale == 10            \* progress is stored in tenths of a percent
StartTime == 1000      \* Date.now() when a behaviour starts, in units: any
                       \* value of 30 s or more saturates every step of
                       \* calculateProgress against lastProgressUpdate = 0

\* the number of clock units a delay of ms milliseconds takes
units(ms) == (ms + MsPerUnit - 1) \div MsPerUnit

FirstPollDelay == units(1000)   \* setTimeout(checkStatus, 1000)
PollDelay == units(2000)        \* setTimeout(checkStatus, 2000)
NavigateDelay == units(2000)    \* setTimeout(() => navigate(...), 2000)
TickerPeriod == units(600)      \* setInterval(..., 600)
AnimDuration == units(3000)     \* useSmoothProgress(targetProgress, 3000)

NoError == "null"
GenericError == "Error checking document status. Please try again."
FailedError == "Document processing failed. Please try again."

DocIds == {"d1", "d2"}

Max(a, b) == IF a >= b THEN a ELSE b
Min(a, b) == IF a <= b THEN a ELSE b

\* ------------------------------------------------------- lookup tables
messageToStep ==
    ("Extracting text from document..." :> 1) @@
    ("Performing AI analysis with Gemini..." :> 2) @@
    ("Creating document summary..." :> 2) @@
    ("Performing deep analysis..." :> 3) @@
    ("Indexing document for search..." :> 5) @@
    ("Document analysis completed successfully!" :> 5)

statusToStep == ("processing" :> 1) @@ ("analyzing" :> 2)

stepWeights == <<5, 15, 20, 25, 25, 10>>
stepDurations == <<6, 18, 24, 30, 30, 12>>

\* The (status, message) pairs a status response may carry: message "" is an
\* absent message, "Working..." a message that is in neither table.
PollResults ==
    {[status |-> "uploading", message |-> ""],
     [status |-> "processing", message |-> ""],
     [status |-> "analyzing", message |-> "Creating document summary..."],
     [status |-> "analyzing", message |-> "Performing deep analysis..."],
     [status |-> "processing", message |-> "Indexing document for search..."],
     [status |-> "completed", message |-> ""],
     [status |-> "failed", message |-> ""],
     [status |-> "error", message |-> "Working..."]}

\* ------------------------------------------------------------------ state
VARIABLES
    now,                  \* the clock
    lifecycle,            \* "mounted" or "unmounted"
    docId,                \* useParams().docId
    location,             \* the router's current path
    status, message, error,
    targetProgress, lastProgressUpdate, highestStepReached,
    smoothProgress,
    animation,            \* the requestAnimationFrame loop of useSmoothProgress
    progressInterval,     \* the setInterval of the progress effect, with its closure
    loops,                \* the checkStatus chains started by the polling effect
    nLoops,               \* how many times the polling effect has run
    nRequests,            \* status requests issued so far
    lastHandled,          \* issue number of the response handled last
    nNavigations,         \* navigations to /document/{docId} performed
    jumpAt                \* clock at the last change of targetProgress not made by the ticker

\* the browser session around the pages: local storage, the API client
\* (lib/api.js) and the auth context (lib/auth.js)
VARIABLES
    authToken,            \* localStorage 'authToken'
    userEntry,            \* localStorage 'user'
    href,                 \* window.location of the page
    page,                 \* "loaded" (AuthProvider mounted) or "unloaded"
    user, loading, authError,   \* the state of AuthProvider
    authOp,               \* the sign-in, sign-up or logout call that is waiting
    authOutcome,          \* how the last call of the auth context settled
    request,              \* the request of the API client that is in flight
    apiOutcome,           \* how the last call of the API client settled
    authHistory           \* the auth call that settled last, and the emails
                          \* whose sign-up has succeeded so far

\* the upload dialog (components/FileUpload.js)
VARIABLES
    uploading, uploadProgress, uploadError,
    selectedFile, filePreview, customName,
    progressIntervals,    \* which calls of handleUpload have a live interval
    nUploads,             \* calls of handleUpload so far
    uploadCall,           \* the form data of the last apiService.uploadDocument
    uploadOutcome         \* how that call stands

\* the document page (pages/DocumentView.js)
VARIABLES
    viewDocId,            \* useParams().docId of DocumentView
    document, viewLoading, viewError, deepAnalysis, actionItems,
    loads,                \* the runs of loadDocument
    nLoads

\* the dashboard's document list and delete modal (pages/Dashboard.js)
VARIABLES
    documents,            \* the ids of the documents in the list, in order
    deleteModal,
    deletes,              \* the calls of apiService.deleteDocument
    nDeletes,
    deleteAlerts          \* alert() calls of handleDeleteConfirm

\* the Q&A chat of the document page (pages/DocumentView.js)
VARIABLES
    qaMessages, currentQuestion, isAskingQuestion,
    asks,                 \* the calls of apiService.askQuestion
    nAsks,
    suggestionTimers,     \* the 100 ms timeouts of handleSuggestedQuestion
    nSuggestions

processingVars ==
    <<now, lifecycle, docId, location, status, message, error,
      targetProgress, lastProgressUpdate, highestStepReached,
      smoothProgress, animation, progressInterval, loops, nLoops,
      nRequests, lastHandled, nNavigations, jumpAt>>

sessionVars == <<authToken, userEntry, href, page, user, loading, authError,
                 authOp, authOutcome, request, apiOutcome,
                 authHistory>>

uploadVars == <<uploading, uploadProgress, uploadError, selectedFile, filePreview,
                customName, progressIntervals, nUploads, uploadCall, uploadOutcome>>

viewVars == <<viewDocId, document, viewLoading, viewError, deepAnalysis,
              actionItems, loads, nLoads>>

dashVars == <<documents, deleteModal, deletes, nDeletes, deleteAlerts>>

qaVars == <<qaMessages, currentQuestion, isAskingQuestion, asks, nAsks,
            suggestionTimers, nSuggestions>>

\* what a step of ProcessingScreen leaves alone
otherVars == <<sessionVars, uploadVars, viewVars, dashVars, qaVars>>

\* what a step of the auth context or of the API client leaves alone
besideSession == <<processingVars, uploadVars, viewVars, dashVars, qaVars>>

\* what a step of the upload dialog leaves alone
besideUpload == <<processingVars, sessionVars, viewVars, dashVars, qaVars>>

\* what a step of DocumentView's load leaves alone
besideView == <<processingVars, sessionVars, uploadVars, dashVars, qaVars>>

\* what a step of the dashboard leaves alone
besideDash == <<processingVars, sessionVars, uploadVars, viewVars, qaVars>>

\* what a step of the Q&A chat leaves alone
besideQa == <<processingVars, sessionVars, uploadVars, viewVars, dashVars>>

vars == <<processingVars, otherVars>>

\* ------------------------------------------------------- pure functions
\* getCurrentStep, the step computed from (status, message) before the ratchet
currentStepOfMutant(st, msg) ==
    IF st = "completed" THEN 5
    ELSE IF st \in {"failed", "error"} THEN 0
    ELSE IF st \in DOMAIN statusToStep THEN statusToStep[st]
    ELSE 0
currentStepOf(st, msg) ==
    IF st = "completed" THEN 5
    ELSE IF st \in {"failed", "error"} THEN 0
    ELSE IF msg \in DOMAIN messageToStep THEN messageToStep[msg]
    ELSE IF st \in DOMAIN statusToStep THEN statusToStep[st]
    ELSE 0

\* getCurrentStep: the new highestStepReached of a closure that sees h
ratchet(st, msg, h) ==
    IF currentStepOf(st, msg) > h THEN currentStepOf(st, msg) ELSE h

\* getCurrentStep: the value returned
getCurrentStepMutant(st, msg, h) == currentStepOf(st, msg)
getCurrentStep(st, msg, h) == Max(currentStepOf(st, msg), h)

RECURSIVE completedWeight(_)
completedWeight(step) ==
    IF step = 0 THEN 0 ELSE stepWeights[step] + completedWeight(step - 1)

\* calculateProgress for a step and Date.now() - lastProgressUpdate (in clock
\* units), in percent
calculateProgress(step, timeSpent) ==
    LET stepDuration == stepDurations[step + 1] * 1000
        spent == Min(timeSpent * MsPerUnit, stepDuration)
        \* Math.round(totalProgress + stepWeights[currentStep] * stepProgress)
        rounded == (2 * (completedWeight(step) * stepDuration
                           + stepWeights[step + 1] * spent) + stepDuration)
                     \div (2 * stepDuration)
    IN  Min(rounded, 100)

\* ------------------------------------------------- the React commit
NoInterval == [active |-> FALSE, due |-> 0, message |-> "", highestStepReached |-> 0]
NoAnimation == [active |-> FALSE, startProgress |-> 0, endProgress |-> 0,
                startTime |-> 0, lastFrame |-> 0]

\* the component state a render sees
Current ==
    [status |-> status, message |-> message, error |-> error,
     targetProgress |-> targetProgress,
     lastProgressUpdate |-> lastProgressUpdate,
     highestStepReached |-> highestStepReached,
     smoothProgress |-> smoothProgress,
     animation |-> animation, progressInterval |-> progressInterval]

\* the dependency values of a first render: every effect runs
NoDeps == [status |-> "", message |-> "", targetProgress |-> -1, lastProgressUpdate |-> -1]

\* Rendering: unless the error screen is returned, the step list calls
\* getStepStatus -> getCurrentStep, whose setHighestStepReached re-renders.
renderPhase(s) ==
    IF s.error = NoError
    THEN [s EXCEPT !.highestStepReached =
             ratchet(s.status, s.message, s.highestStepReached)]
    ELSE s

\* useSmoothProgress: the effect on [targetProgress, duration]
startAnimation(r, t) ==
    [active |-> r.targetProgress - r.smoothProgress > 0,
     startProgress |-> r.smoothProgress, endProgress |-> r.targetProgress,
     startTime |-> t, lastFrame |-> t]

\* the effect on [status, message]: the new targetProgress
statusEffectMutant(r, t) ==
    calculateProgress(getCurrentStep(r.status, r.message, r.highestStepReached),
                      t - r.lastProgressUpdate) * Scale
statusEffect(r, t) ==
    LET newProgress ==
            calculateProgress(getCurrentStep(r.status, r.message, r.highestStepReached),
                              t - r.lastProgressUpdate) * Scale
    IN  IF newProgress > r.targetProgress THEN newProgress ELSE r.targetProgress

\* the effect on [status, targetProgress, lastProgressUpdate]: setTargetProgress(100)
completedTargetMutant(tp) == 99 * Scale
completedTarget(tp) == 100 * Scale

\* One render of state s at time t and the passive effects whose
\* dependencies differ from p, the values of the previous commit.
effects(p, s, t) ==
    LET r == renderPhase(s)
        targetChanged == r.targetProgress # p.targetProgress
        statusChanged == r.status # p.status \/ r.message # p.message
        intervalChanged == \/ r.status # p.status
                           \/ targetChanged
                           \/ r.lastProgressUpdate # p.lastProgressUpdate
        bumped == IF statusChanged THEN statusEffect(r, t) ELSE r.targetProgress
    IN  [r EXCEPT
          !.animation = IF targetChanged THEN startAnimation(r, t) ELSE @,
          !.highestStepReached =
              IF statusChanged THEN ratchet(r.status, r.message, @) ELSE @,
          !.lastProgressUpdate = IF bumped # r.targetProgress THEN t ELSE @,
          !.targetProgress =
              IF intervalChanged /\ r.status = "completed"
              THEN completedTarget(@)
              ELSE bumped,
          !.progressInterval =
              IF ~intervalChanged THEN @
              ELSE IF r.status = "completed" THEN NoInterval
              ELSE [active |-> TRUE, due |-> t + TickerPeriod,
                    message |-> r.message,
                    highestStepReached |-> r.highestStepReached]]

depsOf(s) ==
    [status |-> s.status, message |-> s.message,
     targetProgress |-> s.targetProgress,
     lastProgressUpdate |-> s.lastProgressUpdate]

\* A commit of state s: the render with its effects (giving the state first),
\* then the re-render that the effects' state updates cause.  The one-element
\* sets only name the values state and first.
commit(p, s, t) ==
    LET rerender(state) ==
            CHOOSE second \in {effects(depsOf(state), first, t) :
                                 first \in {effects(p, state, t)}} : TRUE
    IN  CHOOSE out \in {rerender(state) : state \in {s}} : TRUE

\* the component's state is s
Is(s) ==
    /\ status = s.status
    /\ message = s.message
    /\ error = s.error
    /\ targetProgress = s.targetProgress
    /\ lastProgressUpdate = s.lastProgressUpdate
    /\ highestStepReached = s.highestStepReached
    /\ smoothProgress = s.smoothProgress
    /\ animation = s.animation
    /\ progressInterval = s.progressInterval

\* the state after a commit becomes the component's state
Becomes(s) ==
    /\ status' = s.status
    /\ message' = s.message
    /\ error' = s.error
    /\ targetProgress' = s.targetProgress
    /\ lastProgressUpdate' = s.lastProgressUpdate
    /\ highestStepReached' = s.highestStepReached
    /\ smoothProgress' = s.smoothProgress
    /\ animation' = s.animation
    /\ progressInterval' = s.progressInterval

componentVars == <<status, message, error, targetProgress, lastProgressUpdate,
                   highestStepReached, smoothProgress, animation, progressInterval>>

Mounted == lifecycle = "mounted"

\* ------------------------------------------------------ polling loops
LoopIds == 1..MaxLoops
NoLoop == [pc |-> "none", doc |-> "", due |-> 0, seq |-> 0,
           navs |-> 0, last |-> ""]

\* const timer = setTimeout(checkStatus, 1000)
newLoop(d, t) == [NoLoop EXCEPT !.pc = "first", !.doc = d, !.due = t + FirstPollDelay]

\* return () => clearTimeout(timer): only the timeout of this effect run
cleanup(ls, n) ==
    [l \in LoopIds |->
        IF l = n /\ ls[l].pc = "first"
        THEN [ls[l] EXCEPT !.pc = "cleared", !.due = 0]
        ELSE ls[l]]

\* checkStatus: what the loop does after a response with status st
afterResponseMutant(st) ==
    IF st = "completed" THEN "navwait" ELSE "stopped"
afterResponse(st) ==
    IF st = "completed" THEN "navwait"
    ELSE IF st \in {"failed", "error"} THEN "stopped"
    ELSE "timer"

\* checkStatus: the error state after a response (statusData.message || '...')
errorAfterMutant(r, err) == err
errorAfter(r, err) ==
    IF r.status \in {"failed", "error"}
    THEN (IF r.message = "" THEN FailedError ELSE r.message)
    ELSE err

\* checkStatus, catch branch: what the loop does after a rejected request
afterRejectionMutant(l) == "timer"
afterRejection(l) == "stopped"

\* the interval callback: the next targetProgress
tickTargetMutant(tp, newProgress, st) ==
    IF newProgress > tp THEN Min(tp + 1 * Scale, newProgress) ELSE tp
tickTarget(tp, newProgress, st) ==
    IF newProgress > tp THEN Min(tp + 1 * Scale, newProgress)
    ELSE IF tp < 99 * Scale /\ st # "failed" THEN Min(tp + 3, 99 * Scale)
    ELSE tp

\* animate: the progress shown elapsed units after the animation started
animateMutant(a, elapsed) ==
    a.startProgress
      + ((elapsed * (a.endProgress - a.startProgress)) \div (AnimDuration * Scale)) * Scale
animate(a, elapsed) ==
    Min(a.startProgress
          + ((elapsed * (a.endProgress - a.startProgress)) \div (AnimDuration * Scale)) * Scale,
        a.endProgress)

\* ----------------------------------------- handlers on the component state
\* the useState values of a component before its first render
Fresh ==
    [status |-> "processing", message |-> "Initializing document analysis...",
     error |-> NoError, targetProgress |-> 0, lastProgressUpdate |-> 0,
     highestStepReached |-> 0, smoothProgress |-> 0,
     animation |-> NoAnimation, progressInterval |-> NoInterval]

\* the first render of ProcessingScreen at time t and its effects
mountedAt(t) == commit(NoDeps, Fresh, t)

\* checkStatus after the await: setStatus, setMessage and setError
handled(s, r, t) ==
    commit(depsOf(s),
           [s EXCEPT !.status = r.status,
                     !.message = IF r.message = "" THEN r.status ELSE r.message,
                     !.error = errorAfter(r, @)],
           t)

\* checkStatus, catch branch: setError
rejected(s, t) == commit(depsOf(s), [s EXCEPT !.error = GenericError], t)

\* the setInterval callback: newProgress = calculateProgress(), computed with
\* the message and highestStepReached of the render that created the interval
tickProgress(s, t) ==
    LET iv == s.progressInterval
    IN  calculateProgress(getCurrentStep(s.status, iv.message, iv.highestStepReached),
                          t - s.lastProgressUpdate) * Scale

\* the setInterval callback, which sees the message and highestStepReached
\* of the render that created the interval
ticked(s, t) ==
    LET iv == s.progressInterval
        seen == ratchet(s.status, iv.message, iv.highestStepReached)
        newProgress == tickProgress(s, t)
    IN  commit(depsOf(s),
               [s EXCEPT
                  !.highestStepReached = IF seen # iv.highestStepReached THEN seen ELSE @,
                  !.targetProgress = tickTarget(@, newProgress, s.status),
                  !.progressInterval.due = t + TickerPeriod],
               t)

\* the requestAnimationFrame callback of useSmoothProgress
framed(s, t) ==
    LET a == s.animation
        newProgress == animate(a, t - a.startTime)
    IN  IF ~a.active THEN s
        ELSE [s EXCEPT
                !.smoothProgress = IF newProgress # a.startProgress THEN newProgress ELSE @,
                !.animation = [a EXCEPT !.active = newProgress < a.endProgress,
                                        !.lastFrame = t]]

\* ------------------------------------------------- the browser session
NoToken == "null"      \* localStorage.getItem('authToken') of an absent entry
NoEntry == <<>>        \* localStorage.getItem('user') of an absent entry
NoUser == [email |-> "null"]    \* useState(null) of user
NoHeader == [scheme |-> "none", token |-> ""]
NoOp == [kind |-> "none", email |-> "", password |-> ""]
NoRequest == [pending |-> FALSE, header |-> NoHeader, stored |-> NoToken]

\* values the 'authToken' entry may hold: nothing under src/ writes it
Tokens == {"", "t1"}

mockUsers ==
    {[email |-> "demo@example.com", password |-> "demo123", name |-> "Demo User"],
     [email |-> "test@example.com", password |-> "test123", name |-> "Test User"]}

Emails == {"demo@example.com", "test@example.com", "new@example.com"}
Passwords == {"demo123", "test123"}

\* email.split('@')[0]
emailPrefix ==
    ("demo@example.com" :> "demo") @@ ("test@example.com" :> "test") @@
    ("new@example.com" :> "new")

\* JSON.stringify of a user object: its keys and values in insertion order
stringify(u) ==
    LET order == <<"email", "name", "photoURL", "provider">>
        keys == SelectSeq(order, LAMBDA k : k \in DOMAIN u)
    IN  [i \in DOMAIN keys |-> <<keys[i], u[keys[i]]>>]

\* JSON.parse of such a text
parse(j) ==
    [k \in {j[i][1] : i \in DOMAIN j} |->
        (CHOOSE pair \in {j[i] : i \in DOMAIN j} : pair[1] = k)[2]]

\* the request interceptor: the Authorization header of a request
requestHeaderMutant(token) == NoHeader
requestHeader(token) ==
    IF token # NoToken /\ token # ""
    THEN [scheme |-> "Bearer", token |-> token]
    ELSE NoHeader

NoHistory == [settled |-> NoOp, signUps |-> {}]

\* the page is not loaded, nothing is stored
SessionIdle ==
    /\ authHistory = NoHistory
    /\ authToken = NoToken
    /\ userEntry = NoEntry
    /\ href = "/"
    /\ page = "unloaded"
    /\ user = NoUser
    /\ loading = TRUE
    /\ authError = NoError
    /\ authOp = NoOp
    /\ authOutcome = "none"
    /\ request = NoRequest
    /\ apiOutcome = "none"

\* ---- the upload dialog
MaxUploads == 2        \* calls of handleUpload in one behaviour
UploadIds == 1..MaxUploads

NoFile == [name |-> "null", type |-> "", size |-> 0]
NoCall == [file |-> NoFile, customName |-> ""]
NoPreview == "null"

allowedTypes ==
    {"application/pdf", "image/jpeg", "image/png", "image/jpg",
     "application/vnd.openxmlformats-officedocument.wordprocessingml.document",
     "application/msword"}
maxSize == 10485760    \* 10 * 1024 * 1024 bytes

TypeMessage == "Please upload a PDF, Word document, or image file (JPEG, PNG)"
SizeMessage == "File size must be less than 10MB"
UploadFailed == "Upload failed. Please try again."
\* error.response?.data?.error of a failed upload: "" is an absent one
ServerErrors == {"", "No file provided"}

\* the files a drop may bring
FileNames == {"lease.pdf", ".env"}
FileTypes == {"application/pdf", "image/png", "application/msword", "text/plain", ""}
FileSizes == {1, maxSize, maxSize + 1}
Files == [name : FileNames, type : FileTypes, size : FileSizes]

\* file.name.replace(/\.[^/.]+$/, '')
stripExtension == ("lease.pdf" :> "lease") @@ (".env" :> "")

\* generateFilePreview; the data URL of an image stands for the reader's result
previewOf(type) ==
    IF type \in {"image/jpeg", "image/png", "image/jpg"} THEN "data-url"
    ELSE IF type = "application/pdf" THEN "/pdf-preview.svg"
    ELSE IF type \in {"application/vnd.openxmlformats-officedocument.wordprocessingml.document",
                      "application/msword"}
    THEN "/word-preview.svg"
    ELSE "/document-preview.svg"

\* the validation of onDrop: NoError, or the message of the check that fails
validationMutant(file) ==
    IF file.type \notin allowedTypes THEN TypeMessage ELSE NoError
validation(file) ==
    IF file.type \notin allowedTypes THEN TypeMessage
    ELSE IF file.size > maxSize THEN SizeMessage
    ELSE NoError

\* FileUpload as useState leaves it
UploadIdle ==
    /\ uploading = FALSE
    /\ uploadProgress = 0
    /\ uploadError = NoError
    /\ selectedFile = NoFile
    /\ filePreview = NoPreview
    /\ customName = ""
    /\ progressIntervals = [u \in UploadIds |-> FALSE]
    /\ nUploads = 0
    /\ uploadCall = NoCall
    /\ uploadOutcome = "none"

\* ---- the document page
MaxLoads == 2          \* runs of loadDocument (1 + changes of docId)
LoadIds == 1..MaxLoads
ViewDocs == {"d1", "d2"}

NoData == [doc |-> "null", kind |-> "null"]
NoLoad == [pc |-> "none", doc |-> ""]
NotFound == "Document not found"
\* err.message of a rejected request
RequestErrors == {"Network Error", "Request failed with status code 500"}

\* what the backend answers for a document: kind is "document", "deep" or "actions"
dataOf(doc, kind) == [doc |-> doc, kind |-> kind]

\* if (!docData)
isEmptyMutant(docData) == FALSE
isEmpty(docData) == docData = NoData

\* DocumentView is not on screen
ViewIdle ==
    /\ viewDocId = "d1"
    /\ document = NoData
    /\ viewLoading = TRUE
    /\ viewError = NoError
    /\ deepAnalysis = NoData
    /\ actionItems = NoData
    /\ loads = [l \in LoadIds |-> NoLoad]
    /\ nLoads = 0

\* ---- the dashboard
MaxDeletes == 2        \* calls of apiService.deleteDocument in one behaviour
DeleteIds == 1..MaxDeletes
NoDocId == "null"
NoDelete == [pc |-> "none", doc |-> NoDocId]
ClosedModal ==
    [isOpen |-> FALSE, documentId |-> NoDocId, documentName |-> "", isLoading |-> FALSE]

\* the list getUserDocuments has returned, and the documents' names
ListedDocs == <<"d1", "d2", "d3">>
nameOf == ("d1" :> "Lease.pdf") @@ ("d2" :> "NDA.pdf") @@ ("d3" :> "Offer.docx")

\* prev.filter(doc => doc.id !== id)
without(docs, id) == SelectSeq(docs, LAMBDA d : d # id)

\* the list after a deleteDocument call for id has resolved
afterDeleteMutant(docs, id) == docs
afterDelete(docs, id) == without(docs, id)

\* Dashboard is not on screen
DashIdle ==
    /\ documents = <<>>
    /\ deleteModal = ClosedModal
    /\ deletes = [k \in DeleteIds |-> NoDelete]
    /\ nDeletes = 0
    /\ deleteAlerts = 0

\* ---- the Q&A chat
MaxAsks == 2           \* calls of apiService.askQuestion in one behaviour
MaxSuggestions == 2    \* clicks on a suggested question in one behaviour
AskIds == 1..MaxAsks
SuggestionIds == 1..MaxSuggestions
NoAsk == [pc |-> "none", question |-> ""]
NoTimer == [active |-> FALSE, question |-> "", currentQuestion |-> "",
            isAskingQuestion |-> FALSE]

\* what the textarea may hold, and the suggested questions of the welcome panel
TypedQuestions == {"", "  ", " What is the notice period? "}
SuggestedQuestions ==
    {"What are the main risks in this document?", "Are there any compliance issues?"}

\* String.prototype.trim
trim ==
    [q \in TypedQuestions \cup SuggestedQuestions |->
        IF q = "  " THEN ""
        ELSE IF q = " What is the notice period? " THEN "What is the notice period?"
        ELSE q]

\* the chat as useState leaves it
QaIdle ==
    /\ qaMessages = <<>>
    /\ currentQuestion = ""
    /\ isAskingQuestion = FALSE
    /\ asks = [k \in AskIds |-> NoAsk]
    /\ nAsks = 0
    /\ suggestionTimers = [i \in SuggestionIds |-> NoTimer]
    /\ nSuggestions = 0

\* the state of everything but ProcessingScreen, in its specifications
OthersIdle == SessionIdle /\ UploadIdle /\ ViewIdle /\ DashIdle /\ QaIdle

\* --------------------------------------------------------------- Init
\* ProcessingScreen has just been mounted on /processing/d1
Init ==
    /\ now = StartTime
    /\ lifecycle = "mounted"
    /\ docId = "d1"
    /\ location = [page |-> "processing", doc |-> "d1"]
    /\ Is(mountedAt(StartTime))
    /\ loops = [l \in LoopIds |-> IF l = 1 THEN newLoop("d1", StartTime) ELSE NoLoop]
    /\ nLoops = 1
    /\ nRequests = 0
    /\ lastHandled = 0
    /\ nNavigations = 0
    /\ jumpAt = StartTime
    /\ OthersIdle

\* jumpAt follows the changes of targetProgress made outside the ticker
Jump == jumpAt' = IF targetProgress' # targetProgress THEN now ELSE jumpAt

\* ------------------------------------------------------------ actions
\* the animation frame of the current instant has not run yet
FramePending == Mounted /\ animation.active /\ animation.lastFrame < now

\* a callback is due at the current instant and runs before the clock moves,
\* when at most maxRequests requests are sent and each is settled within
\* maxLatency units
DueWithin(maxRequests, maxLatency) ==
    \/ \E l \in LoopIds : /\ loops[l].pc \in {"first", "timer"}
                          /\ loops[l].due <= now
                          /\ nRequests < maxRequests
    \/ \E l \in LoopIds : loops[l].pc = "navwait" /\ loops[l].due <= now
    \/ \E l \in LoopIds : loops[l].pc = "inflight" /\ now - loops[l].due >= maxLatency
    \/ Mounted /\ progressInterval.active /\ progressInterval.due <= now
    \/ FramePending

Due == DueWithin(MaxRequests, MaxLatency)

\* the clock moves on, up to maxTime units after the start
Advance(maxTime, due) ==
    /\ now < StartTime + maxTime
    /\ ~due
    /\ now' = now + 1
    /\ UNCHANGED <<lifecycle, docId, location, componentVars, loops, nLoops,
                   nRequests, lastHandled, nNavigations, jumpAt>>
    /\ UNCHANGED otherVars

TimePasses == Advance(MaxTime, Due)

\* a timeout runs checkStatus, which sends the status request
Send(l, maxRequests) ==
    /\ ~FramePending
    /\ loops[l].pc \in {"first", "timer"}
    /\ loops[l].due <= now
    /\ nRequests < maxRequests
    /\ loops' = [loops EXCEPT ![l].pc = "inflight", ![l].due = now,
                              ![l].seq = nRequests + 1]
    /\ nRequests' = nRequests + 1
    /\ UNCHANGED <<now, lifecycle, docId, location, componentVars, nLoops,
                   lastHandled, nNavigations, jumpAt>>
    /\ UNCHANGED otherVars

CheckStatus(l) == Send(l, MaxRequests)

\* checkStatus after the await: the response r is handled
Respond(l, r) ==
    /\ ~FramePending
    /\ loops[l].pc = "inflight"
    /\ IF Mounted
       THEN (\E s \in {handled(Current, r, now)} : Becomes(s))
       ELSE UNCHANGED componentVars
    /\ loops' = [loops EXCEPT
                   ![l].pc = afterResponse(r.status),
                   ![l].due = IF afterResponse(r.status) = "navwait"
                              THEN now + NavigateDelay
                              ELSE IF afterResponse(r.status) = "timer"
                              THEN now + PollDelay
                              ELSE 0,
                   ![l].navs = IF afterResponse(r.status) = "navwait" THEN @ + 1 ELSE @,
                   ![l].last = r.status]
    /\ lastHandled' = loops[l].seq
    /\ Jump
    /\ UNCHANGED <<now, lifecycle, docId, location, nLoops, nRequests, nNavigations>>
    /\ UNCHANGED otherVars

\* checkStatus, catch branch: the request was rejected (network error, timeout)
Reject(l) ==
    /\ ~FramePending
    /\ loops[l].pc = "inflight"
    /\ IF Mounted
       THEN (\E s \in {rejected(Current, now)} : Becomes(s))
       ELSE UNCHANGED componentVars
    /\ loops' = [loops EXCEPT
                   ![l].pc = afterRejection(l),
                   ![l].due = IF afterRejection(l) = "timer" THEN now + PollDelay ELSE 0,
                   ![l].last = "rejected"]
    /\ lastHandled' = loops[l].seq
    /\ Jump
    /\ UNCHANGED <<now, lifecycle, docId, location, nLoops, nRequests, nNavigations>>
    /\ UNCHANGED otherVars

\* unmounting runs the effect cleanups (clearTimeout(timer), clearInterval,
\* cancelAnimationFrame) and discards the component's state
Unmounted ==
    /\ lifecycle' = "unmounted"
    /\ Becomes(Fresh)
    /\ jumpAt' = 0

\* the timeout set on 'completed' runs navigate(`/document/${docId}`)
Navigate(l) ==
    /\ ~FramePending
    /\ loops[l].pc = "navwait"
    /\ loops[l].due <= now
    /\ location' = [page |-> "document", doc |-> loops[l].doc]
    /\ nNavigations' = nNavigations + 1
    /\ IF Mounted
       THEN /\ Unmounted
            /\ loops' = [cleanup(loops, nLoops) EXCEPT ![l].pc = "navigated", ![l].due = 0]
       ELSE /\ loops' = [loops EXCEPT ![l].pc = "navigated", ![l].due = 0]
            /\ UNCHANGED <<lifecycle, componentVars, jumpAt>>
    /\ UNCHANGED <<now, docId, nLoops, nRequests, lastHandled>>
    /\ UNCHANGED otherVars

\* Cancel, Upload More Documents, Back to Dashboard: navigate('/')
Leave ==
    /\ ~FramePending
    /\ Mounted
    /\ location' = [page |-> "dashboard", doc |-> ""]
    /\ Unmounted
    /\ loops' = cleanup(loops, nLoops)
    /\ UNCHANGED <<now, docId, nLoops, nRequests, lastHandled, nNavigations>>
    /\ UNCHANGED otherVars

\* the route changes to /processing/d: docId and navigate change, the
\* polling effect is cleaned up and runs again
ChangeDocId(d) ==
    /\ ~FramePending
    /\ Mounted
    /\ d # docId
    /\ nLoops < MaxLoops
    /\ docId' = d
    /\ location' = [page |-> "processing", doc |-> d]
    /\ loops' = [cleanup(loops, nLoops) EXCEPT ![nLoops + 1] = newLoop(d, now)]
    /\ nLoops' = nLoops + 1
    /\ UNCHANGED <<now, lifecycle, componentVars, nRequests, lastHandled,
                   nNavigations, jumpAt>>
    /\ UNCHANGED otherVars

\* the progress interval fires
IntervalTick ==
    /\ ~FramePending
    /\ Mounted
    /\ progressInterval.active
    /\ progressInterval.due <= now
    /\ (\E s \in {ticked(Current, now)} : Becomes(s))
    /\ UNCHANGED <<now, lifecycle, docId, location, loops, nLoops, nRequests,
                   lastHandled, nNavigations, jumpAt>>
    /\ UNCHANGED otherVars

\* the animation frame of the current instant
AnimationFrame ==
    /\ FramePending
    /\ (\E s \in {framed(Current, now)} : Becomes(s))
    /\ UNCHANGED <<now, lifecycle, docId, location, loops, nLoops, nRequests,
                   lastHandled, nNavigations, jumpAt>>
    /\ UNCHANGED otherVars

Next ==
    \/ TimePasses
    \/ \E l \in LoopIds : CheckStatus(l)
    \/ \E l \in LoopIds, r \in PollResults : Respond(l, r)
    \/ \E l \in LoopIds : Reject(l)
    \/ \E l \in LoopIds : Navigate(l)
    \/ Leave
    \/ \E d \in DocIds : ChangeDocId(d)
    \/ IntervalTick
    \/ AnimationFrame

Spec == Init /\ [][Next]_vars

\* the steps the browser takes by itself: the clock, timers, the interval,
\* settled requests and animation frames (not the user's route changes)
Scheduled ==
    \/ TimePasses
    \/ \E l \in LoopIds : CheckStatus(l)
    \/ \E l \in LoopIds, r \in PollResults : Respond(l, r)
    \/ \E l \in LoopIds : Reject(l)
    \/ \E l \in LoopIds : Navigate(l)
    \/ IntervalTick
    \/ AnimationFrame

\* Scheduling: the event loop never stays idle while the clock can advance, a
\* timer or the interval is due, a request that was sent can be settled (axios
\* gives up after its timeout) or an animation frame is requested.  No
\* behaviour takes infinitely many steps (every step moves the clock, a
\* counter or a loop forward), so this is as strong as weak fairness of every
\* single callback.
Fairness == WF_vars(Scheduled)

FairSpec == Spec /\ Fairness

\* ----------------------------------------------------- a late session
\* n more instants of a session in which nothing but the animation frame and
\* the progress interval runs: the state at time t + n, from state s at time t
RECURSIVE idle(_, _, _)
idle(s, t, n) ==
    IF n = 0 THEN s
    ELSE IF n = 1 THEN ticked(framed(s, t + 1), t + 1)
    ELSE LET half == n \div 2
             middle == idle(s, t, half)
         IN  IF middle.targetProgress >= 0
             THEN idle(middle, t + half, n - half)
             ELSE middle

\* The component WarmTicks instants after its mount, when the first poll was
\* answered 'processing' and every later answer was the same.
lateSession ==
    LET t0 == StartTime - WarmTicks
        first == idle(mountedAt(t0), t0, FirstPollDelay)
        answered == handled(first, [status |-> "processing", message |-> ""],
                            t0 + FirstPollDelay)
    IN  idle(answered, t0 + FirstPollDelay, WarmTicks - FirstPollDelay)

\* ProcessingScreen was mounted WarmTicks instants ago, the backend has
\* answered 'processing' ever since, and the next status request has just
\* been sent
InitLate ==
    /\ now = StartTime
    /\ lifecycle = "mounted"
    /\ docId = "d1"
    /\ location = [page |-> "processing", doc |-> "d1"]
    /\ Is(lateSession)
    /\ loops = [l \in LoopIds |->
                  IF l = 1
                  THEN [NoLoop EXCEPT !.pc = "inflight", !.doc = "d1",
                                      !.due = StartTime, !.last = "processing"]
                  ELSE NoLoop]
    /\ nLoops = 1
    /\ nRequests = 0
    /\ lastHandled = 0
    /\ nNavigations = 0
    /\ jumpAt = StartTime - WarmTicks
    /\ OthersIdle

SpecLate == InitLate /\ [][Next]_vars

\* ------------------------------------------- the five-answer scenario
\* The answers of the status endpoint, in order: status 'processing', status
\* 'analyzing', message 'Performing deep analysis...', message 'Indexing
\* document for search...', status 'completed'.  Where the scenario names
\* only the message the status is any non-terminal one.
Scenario ==
    << {[status |-> "processing", message |-> ""]},
       {[status |-> "analyzing", message |-> ""]},
       {[status |-> st, message |-> "Performing deep analysis..."] :
           st \in {"processing", "analyzing"}},
       {[status |-> st, message |-> "Indexing document for search..."] :
           st \in {"processing", "analyzing"}},
       {[status |-> "completed", message |-> msg] :
           msg \in {"", "Document analysis completed successfully!"}} >>

ScenarioTime == 28     \* the clock stops ScenarioTime units after the start
ScenarioLatency == 1   \* an answer of the scenario arrives within ScenarioLatency units

ScenarioTimePasses == Advance(ScenarioTime, DueWithin(Len(Scenario), ScenarioLatency))

ScenarioCheckStatus == Send(1, Len(Scenario))

\* the next answer of the scenario is handled
ScenarioRespond ==
    /\ loops[1].pc = "inflight"
    /\ \E r \in Scenario[loops[1].seq] : Respond(1, r)

ScenarioNext ==
    \/ ScenarioTimePasses
    \/ ScenarioCheckStatus
    \/ ScenarioRespond
    \/ Navigate(1)
    \/ IntervalTick
    \/ AnimationFrame

SpecScenario == Init /\ [][ScenarioNext]_vars

\* ------------------------------------------------- the remaining time
estimatedDuration == 120000

\* Math.round(x / d) for x >= 0
roundDiv(x, d) == (2 * x + d) \div (2 * d)

\* calculateRemainingTime, rendered at clock t, in seconds
calculateRemainingTimeMutant(st, sp, t) ==
    IF st = "completed" THEN 0
    ELSE LET elapsed == (t - StartTime) * MsPerUnit
         IN  IF sp > 0
             THEN Max(0, estimatedDuration - elapsed) \div 1000
             ELSE estimatedDuration \div 1000
calculateRemainingTime(st, sp, t) ==
    IF st = "completed" THEN 0
    ELSE LET elapsed == (t - StartTime) * MsPerUnit
         IN  IF sp > 0
             THEN roundDiv(Max(0, estimatedDuration - elapsed), 1000)
             ELSE roundDiv(estimatedDuration, 1000)

\* ------------------------------------- the auth context and the API client
\* ProcessingScreen is not on screen
ProcessingIdle ==
    /\ now = StartTime
    /\ lifecycle = "unmounted"
    /\ docId = "d1"
    /\ location = [page |-> "dashboard", doc |-> ""]
    /\ Is(Fresh)
    /\ loops = [l \in LoopIds |-> NoLoop]
    /\ nLoops = 0
    /\ nRequests = 0
    /\ lastHandled = 0
    /\ nNavigations = 0
    /\ jumpAt = 0

InvalidCredentials == "Invalid email or password"
UserExists == "User already exists"

\* signInWithEmail: the userData of a pair found in mockUsers, else NoUser
signedInMutant(email, password) ==
    IF \E u \in mockUsers : u.email = email
    THEN LET found == CHOOSE u \in mockUsers : u.email = email
         IN  [email |-> found.email, name |-> found.name, provider |-> "email"]
    ELSE NoUser
signedIn(email, password) ==
    IF \E u \in mockUsers : u.email = email /\ u.password = password
    THEN LET found == CHOOSE u \in mockUsers : u.email = email /\ u.password = password
         IN  [email |-> found.email, name |-> found.name, provider |-> "email"]
    ELSE NoUser

\* signUpWithEmail: the userData of a new email, NoUser for an email of mockUsers
signedUpMutant(email) ==
    IF \E u \in mockUsers : u.email = email
    THEN [email |-> email, name |-> emailPrefix[email], provider |-> "email"]
    ELSE NoUser
signedUp(email) ==
    IF \E u \in mockUsers : u.email = email
    THEN NoUser
    ELSE [email |-> email, name |-> emailPrefix[email], provider |-> "email"]

\* signInWithGoogle: mockUser
googleUser ==
    [email |-> "google.user@example.com", name |-> "Google User",
     photoURL |-> "https://via.placeholder.com/40", provider |-> "google"]

\* the restore effect of AuthProvider: the user of the persisted entry
restoredMutant(entry) == NoUser
restored(entry) == IF entry # NoEntry THEN parse(entry) ELSE NoUser

\* the response interceptor: does an error with this HTTP status (0: no
\* response) remove the token and redirect to /login
unauthorizedMutant(code) == FALSE
unauthorized(code) == code = 401

StatusCodes == {0, 401, 403, 500}

\* the routes of App.js
ProtectedPaths == {"/", "/document/d1", "/processing/d1"}
pageOf ==
    ("/" :> "Dashboard") @@ ("/document/d1" :> "DocumentView")
        @@ ("/processing/d1" :> "ProcessingScreen")

\* what the route of path renders: Login, or ProtectedRoute around a page
routeElementMutant(path, u, l) ==
    IF path = "/login" THEN "Login"
    ELSE IF u # NoUser THEN pageOf[path]
    ELSE "Navigate to /login"
routeElement(path, u, l) ==
    IF path = "/login" THEN "Login"
    ELSE IF l THEN "spinner"
    ELSE IF u # NoUser THEN pageOf[path]
    ELSE "Navigate to /login"

\* where the router is once the commit's effects have run: <Navigate> of
\* ProtectedRoute, and navigate('/') of Login's effect when user is set
routed(path, u, l) ==
    IF routeElement(path, u, l) = "Navigate to /login" THEN "/login"
    ELSE IF routeElement(path, u, l) = "Login" /\ u # NoUser THEN "/"
    ELSE path

\* the page is unloaded: the state of AuthProvider and every pending call is gone
Unloaded ==
    /\ page' = "unloaded"
    /\ user' = NoUser
    /\ loading' = TRUE
    /\ authError' = NoError
    /\ authOp' = NoOp
    /\ authOutcome' = "none"
    /\ request' = NoRequest

\* the page loads: AuthProvider mounts and its effect restores the user
Mount ==
    /\ page = "unloaded"
    /\ page' = "loaded"
    /\ user' = restored(userEntry)
    /\ loading' = FALSE
    /\ authError' = NoError
    /\ href' = routed(href, restored(userEntry), FALSE)
    /\ UNCHANGED <<authToken, userEntry, authOp, authOutcome, request, apiOutcome>>
    /\ UNCHANGED authHistory
    /\ UNCHANGED besideSession

\* the user reloads the page
Reload ==
    /\ page = "loaded"
    /\ Unloaded
    /\ apiOutcome' = "none"
    /\ UNCHANGED <<authToken, userEntry, href>>
    /\ UNCHANGED authHistory
    /\ UNCHANGED besideSession

\* signInWithEmail, signUpWithEmail, signInWithGoogle, logout up to the await:
\* setError(null), setLoading(true)
StartAuth(kind, email, password) ==
    /\ page = "loaded"
    /\ authOp = NoOp
    /\ authOp' = [kind |-> kind, email |-> email, password |-> password]
    /\ authError' = NoError
    /\ loading' = TRUE
    /\ authOutcome' = "pending"
    /\ href' = routed(href, user, TRUE)
    /\ UNCHANGED <<authToken, userEntry, page, user, request, apiOutcome>>
    /\ UNCHANGED authHistory
    /\ UNCHANGED besideSession

\* the userData the waiting call ends with, NoUser if it throws
userData(op) ==
    IF op.kind = "signIn" THEN signedIn(op.email, op.password)
    ELSE IF op.kind = "signUp" THEN signedUp(op.email)
    ELSE IF op.kind = "google" THEN googleUser
    ELSE NoUser

\* the call that is waiting goes on after its await, to its finally block
FinishAuth ==
    /\ page = "loaded"
    /\ authOp # NoOp
    /\ IF authOp.kind = "logout"
       THEN /\ user' = NoUser
            /\ userEntry' = NoEntry
            /\ authOutcome' = "resolved"
            /\ UNCHANGED authError
       ELSE IF userData(authOp) # NoUser
       THEN /\ user' = userData(authOp)
            /\ userEntry' = stringify(userData(authOp))
            /\ authOutcome' = "resolved"
            /\ UNCHANGED authError
       ELSE /\ authError' = (IF authOp.kind = "signIn" THEN InvalidCredentials
                                                      ELSE UserExists)
            /\ authOutcome' = "rejected"
            /\ UNCHANGED <<user, userEntry>>
    /\ loading' = FALSE
    /\ authOp' = NoOp
    /\ href' = routed(href, user', FALSE)
    /\ authHistory' =
           [settled |-> authOp,
            signUps |-> IF authOp.kind = "signUp" /\ userData(authOp) # NoUser
                        THEN authHistory.signUps \cup {authOp.email}
                        ELSE authHistory.signUps]
    /\ UNCHANGED <<authToken, page, request, apiOutcome>>
    /\ UNCHANGED besideSession

\* navigate(path) of a page that is on screen
Go(path) ==
    /\ page = "loaded"
    /\ routeElement(href, user, loading) \in {"Dashboard", "DocumentView", "ProcessingScreen"}
    /\ path # href
    /\ href' = path
    /\ UNCHANGED <<authToken, userEntry, page, user, loading, authError, authOp,
                   authOutcome, request, apiOutcome>>
    /\ UNCHANGED authHistory
    /\ UNCHANGED besideSession

\* clearError
ClearError ==
    /\ page = "loaded"
    /\ authError # NoError
    /\ authError' = NoError
    /\ UNCHANGED <<authToken, userEntry, href, page, user, loading, authOp,
                   authOutcome, request, apiOutcome>>
    /\ UNCHANGED authHistory
    /\ UNCHANGED besideSession

\* a call of apiService: the request passes the request interceptor
SendRequest ==
    /\ page = "loaded"
    /\ ~request.pending
    /\ request' = [pending |-> TRUE, header |-> requestHeader(authToken),
                   stored |-> authToken]
    /\ apiOutcome' = "pending"
    /\ UNCHANGED <<authToken, userEntry, href, page, user, loading, authError,
                   authOp, authOutcome>>
    /\ UNCHANGED authHistory
    /\ UNCHANGED besideSession

\* the response passes the response interceptor unchanged
ResponseOk ==
    /\ request.pending
    /\ request' = NoRequest
    /\ apiOutcome' = "resolved"
    /\ UNCHANGED <<authToken, userEntry, href, page, user, loading, authError,
                   authOp, authOutcome>>
    /\ UNCHANGED authHistory
    /\ UNCHANGED besideSession

\* the response interceptor's error handler, for an error with HTTP status
\* code: on 401 the token is removed and window.location.href = '/login'
\* leaves the page
ResponseError(code) ==
    /\ request.pending
    /\ apiOutcome' = "rejected"
    /\ IF unauthorized(code)
       THEN /\ authToken' = NoToken
            /\ href' = "/login"
            /\ Unloaded
       ELSE /\ request' = NoRequest
            /\ UNCHANGED <<authToken, href, page, user, loading, authError,
                           authOp, authOutcome>>
    /\ UNCHANGED userEntry
    /\ UNCHANGED authHistory
    /\ UNCHANGED besideSession

InitSession ==
    /\ authHistory = NoHistory
    /\ ProcessingIdle
    /\ UploadIdle
    /\ ViewIdle
    /\ DashIdle
    /\ QaIdle
    /\ authToken \in Tokens \cup {NoToken}
    /\ userEntry = NoEntry
    /\ href = "/"
    /\ page = "unloaded"
    /\ user = NoUser
    /\ loading = TRUE
    /\ authError = NoError
    /\ authOp = NoOp
    /\ authOutcome = "none"
    /\ request = NoRequest
    /\ apiOutcome = "none"

SessionNext ==
    \/ Mount
    \/ Reload
    \/ \E email \in Emails, password \in Passwords : StartAuth("signIn", email, password)
    \/ \E email \in Emails, password \in Passwords : StartAuth("signUp", email, password)
    \/ StartAuth("google", "", "")
    \/ StartAuth("logout", "", "")
    \/ FinishAuth
    \/ \E path \in ProtectedPaths : Go(path)
    \/ ClearError
    \/ SendRequest
    \/ ResponseOk
    \/ \E code \in StatusCodes : ResponseError(code)

SpecSession == InitSession /\ [][SessionNext]_vars

\* ------------------------------------------------------ the upload dialog
\* onDrop(acceptedFiles); the dropzone is disabled while uploading
OnDrop(acceptedFiles) ==
    /\ ~uploading
    /\ IF Len(acceptedFiles) = 0
       THEN UNCHANGED <<uploadError, selectedFile, filePreview, customName>>
       ELSE LET file == acceptedFiles[1]
            IN  IF validation(file) # NoError
                THEN /\ uploadError' = validation(file)
                     /\ UNCHANGED <<selectedFile, filePreview, customName>>
                ELSE /\ selectedFile' = file
                     /\ customName' = stripExtension[file.name]
                     /\ filePreview' = previewOf(file.type)
                     /\ uploadError' = NoError
    /\ UNCHANGED <<uploading, uploadProgress, progressIntervals, nUploads,
                   uploadCall, uploadOutcome>>
    /\ UNCHANGED besideUpload

\* handleUpload up to its await; the button is rendered while a file is
\* selected and nothing is uploading
HandleUpload ==
    /\ selectedFile # NoFile
    /\ ~uploading
    /\ nUploads < MaxUploads
    /\ uploading' = TRUE
    /\ uploadError' = NoError
    /\ uploadProgress' = 0
    /\ nUploads' = nUploads + 1
    /\ progressIntervals' = [progressIntervals EXCEPT ![nUploads + 1] = TRUE]
    /\ uploadCall' = [file |-> selectedFile,
                      customName |-> IF customName # "" THEN customName
                                                        ELSE selectedFile.name]
    /\ uploadOutcome' = "pending"
    /\ UNCHANGED <<selectedFile, filePreview, customName>>
    /\ UNCHANGED besideUpload

\* the 200 ms interval of call u
ProgressTick(u) ==
    /\ progressIntervals[u]
    /\ IF uploadProgress >= 90
       THEN /\ uploadProgress' = 90
            /\ progressIntervals' = [progressIntervals EXCEPT ![u] = FALSE]
       ELSE /\ uploadProgress' = uploadProgress + 10
            /\ UNCHANGED progressIntervals
    /\ UNCHANGED <<uploading, uploadError, selectedFile, filePreview, customName,
                   nUploads, uploadCall, uploadOutcome>>
    /\ UNCHANGED besideUpload

\* apiService.uploadDocument resolves: handleUpload goes on to onSuccess
UploadResolve ==
    /\ uploadOutcome = "pending"
    /\ progressIntervals' = [progressIntervals EXCEPT ![nUploads] = FALSE]
    /\ uploadProgress' = 100
    /\ uploadOutcome' = "success"
    /\ UNCHANGED <<uploading, uploadError, selectedFile, filePreview, customName,
                   nUploads, uploadCall>>
    /\ UNCHANGED besideUpload

\* apiService.uploadDocument rejects: the catch block of handleUpload
UploadReject(serverError) ==
    /\ uploadOutcome = "pending"
    /\ uploadError' = (IF serverError # "" THEN serverError ELSE UploadFailed)
    /\ uploading' = FALSE
    /\ uploadProgress' = 0
    /\ uploadOutcome' = "failed"
    /\ UNCHANGED <<selectedFile, filePreview, customName, progressIntervals,
                   nUploads, uploadCall>>
    /\ UNCHANGED besideUpload

\* handleRemoveFile; its button is rendered like the upload button
HandleRemoveFile ==
    /\ selectedFile # NoFile
    /\ ~uploading
    /\ selectedFile' = NoFile
    /\ filePreview' = NoPreview
    /\ customName' = ""
    /\ uploadError' = NoError
    /\ UNCHANGED <<uploading, uploadProgress, progressIntervals, nUploads,
                   uploadCall, uploadOutcome>>
    /\ UNCHANGED besideUpload

\* the dialog has just been opened
InitUpload ==
    /\ ProcessingIdle
    /\ SessionIdle
    /\ ViewIdle
    /\ DashIdle
    /\ QaIdle
    /\ UploadIdle

UploadNext ==
    \/ OnDrop(<<>>)
    \/ \E file \in Files : OnDrop(<<file>>)
    \/ HandleUpload
    \/ \E u \in UploadIds : ProgressTick(u)
    \/ UploadResolve
    \/ \E serverError \in ServerErrors : UploadReject(serverError)
    \/ HandleRemoveFile

SpecUpload == InitUpload /\ [][UploadNext]_vars

\* ------------------------------------------------------ the document page
\* the effect of [docId]: loadDocument up to its first await
startLoad(l, doc) ==
    /\ viewLoading' = TRUE
    /\ viewError' = NoError
    /\ loads' = [loads EXCEPT ![l] = [pc |-> "details", doc |-> doc]]

\* the route brings another document to the mounted page
ChangeViewDoc(doc) ==
    /\ nLoads < MaxLoads
    /\ doc # viewDocId
    /\ viewDocId' = doc
    /\ nLoads' = nLoads + 1
    /\ startLoad(nLoads + 1, doc)
    /\ UNCHANGED <<document, deepAnalysis, actionItems>>
    /\ UNCHANGED besideView

\* getDocumentDetails resolves with docData
DetailsResolve(l, docData) ==
    /\ loads[l].pc = "details"
    /\ IF isEmpty(docData)
       THEN /\ viewError' = NotFound
            /\ viewLoading' = FALSE
            /\ loads' = [loads EXCEPT ![l].pc = "done"]
            /\ UNCHANGED document
       ELSE /\ document' = docData
            /\ loads' = [loads EXCEPT ![l].pc = "deep"]
            /\ UNCHANGED <<viewError, viewLoading>>
    /\ UNCHANGED <<viewDocId, deepAnalysis, actionItems, nLoads>>
    /\ UNCHANGED besideView

\* getDocumentDetails rejects
DetailsReject(l, err) ==
    /\ loads[l].pc = "details"
    /\ viewError' = err
    /\ viewLoading' = FALSE
    /\ loads' = [loads EXCEPT ![l].pc = "done"]
    /\ UNCHANGED <<viewDocId, document, deepAnalysis, actionItems, nLoads>>
    /\ UNCHANGED besideView

\* getDeepAnalysis settles: deepData, or NoData from the inner catch
DeepSettle(l, deepData) ==
    /\ loads[l].pc = "deep"
    /\ deepAnalysis' = deepData
    /\ loads' = [loads EXCEPT ![l].pc = "items"]
    /\ UNCHANGED <<viewDocId, document, viewLoading, viewError, actionItems, nLoads>>
    /\ UNCHANGED besideView

DeepResolve(l) == DeepSettle(l, dataOf(loads[l].doc, "deep"))
DeepReject(l) == DeepSettle(l, NoData)

\* getActionItems settles, and loadDocument ends with its finally block
ItemsSettle(l, actionItemsData) ==
    /\ loads[l].pc = "items"
    /\ actionItems' = actionItemsData
    /\ viewLoading' = FALSE
    /\ loads' = [loads EXCEPT ![l].pc = "done"]
    /\ UNCHANGED <<viewDocId, document, viewError, deepAnalysis, nLoads>>
    /\ UNCHANGED besideView

ItemsResolve(l) == ItemsSettle(l, dataOf(loads[l].doc, "actions"))
ItemsReject(l) == ItemsSettle(l, NoData)

\* DocumentView has just been mounted on /document/d1
InitView ==
    /\ ProcessingIdle
    /\ SessionIdle
    /\ UploadIdle
    /\ DashIdle
    /\ QaIdle
    /\ viewDocId = "d1"
    /\ document = NoData
    /\ viewLoading = TRUE
    /\ viewError = NoError
    /\ deepAnalysis = NoData
    /\ actionItems = NoData
    /\ loads = [l \in LoadIds |-> IF l = 1 THEN [pc |-> "details", doc |-> "d1"]
                                           ELSE NoLoad]
    /\ nLoads = 1

ViewNext ==
    \/ \E doc \in ViewDocs : ChangeViewDoc(doc)
    \/ \E l \in LoadIds :
          \/ DetailsResolve(l, dataOf(loads[l].doc, "document"))
          \/ DetailsResolve(l, NoData)
          \/ \E err \in RequestErrors : DetailsReject(l, err)
          \/ DeepResolve(l)
          \/ DeepReject(l)
          \/ ItemsResolve(l)
          \/ ItemsReject(l)

SpecView == InitView /\ [][ViewNext]_vars

\* ---------------------------------------------------------- the dashboard
\* handleDeleteDocument: the delete button of a listed document, reachable
\* while the modal's overlay is not shown
HandleDeleteDocument(id) ==
    /\ ~deleteModal.isOpen
    /\ \E i \in 1..Len(documents) : documents[i] = id
    /\ deleteModal' = [isOpen |-> TRUE, documentId |-> id,
                       documentName |-> nameOf[id], isLoading |-> FALSE]
    /\ UNCHANGED <<documents, deletes, nDeletes, deleteAlerts>>
    /\ UNCHANGED besideDash

\* handleDeleteConfirm up to its await; the button is disabled while isLoading
HandleDeleteConfirm ==
    /\ deleteModal.isOpen
    /\ ~deleteModal.isLoading
    /\ nDeletes < MaxDeletes
    /\ deleteModal' = [deleteModal EXCEPT !.isLoading = TRUE]
    /\ nDeletes' = nDeletes + 1
    /\ deletes' = [deletes EXCEPT ![nDeletes + 1] =
                       [pc |-> "pending", doc |-> deleteModal.documentId]]
    /\ UNCHANGED <<documents, deleteAlerts>>
    /\ UNCHANGED besideDash

\* handleDeleteCancel: the Cancel button (disabled while isLoading) or a click
\* on the backdrop (never disabled)
HandleDeleteCancel ==
    /\ deleteModal.isOpen
    /\ deleteModal' = ClosedModal
    /\ UNCHANGED <<documents, deletes, nDeletes, deleteAlerts>>
    /\ UNCHANGED besideDash

\* deleteDocument of call k resolves
DeleteResolve(k) ==
    /\ deletes[k].pc = "pending"
    /\ documents' = afterDelete(documents, deletes[k].doc)
    /\ deleteModal' = ClosedModal
    /\ deletes' = [deletes EXCEPT ![k].pc = "resolved"]
    /\ UNCHANGED <<nDeletes, deleteAlerts>>
    /\ UNCHANGED besideDash

\* deleteDocument of call k rejects: the catch block
DeleteReject(k) ==
    /\ deletes[k].pc = "pending"
    /\ deleteAlerts' = deleteAlerts + 1
    /\ deleteModal' = ClosedModal
    /\ deletes' = [deletes EXCEPT ![k].pc = "rejected"]
    /\ UNCHANGED <<documents, nDeletes>>
    /\ UNCHANGED besideDash

\* Dashboard is on screen and loadDocuments has filled the list
InitDash ==
    /\ ProcessingIdle
    /\ SessionIdle
    /\ UploadIdle
    /\ ViewIdle
    /\ QaIdle
    /\ documents = ListedDocs
    /\ deleteModal = ClosedModal
    /\ deletes = [k \in DeleteIds |-> NoDelete]
    /\ nDeletes = 0
    /\ deleteAlerts = 0

DashNext ==
    \/ \E id \in {"d1", "d2", "d3"} : HandleDeleteDocument(id)
    \/ HandleDeleteConfirm
    \/ HandleDeleteCancel
    \/ \E k \in DeleteIds : DeleteResolve(k)
    \/ \E k \in DeleteIds : DeleteReject(k)

SpecDash == InitDash /\ [][DashNext]_vars

\* --------------------------------------------------------- the Q&A chat
ReplyError ==
    "Sorry, I encountered an error while processing your question. Please try again."

\* does handleAskQuestion, called with these values of currentQuestion and
\* isAskingQuestion in its closure, go past its first line
accepts(cq, asking) == trim[cq] # "" /\ ~asking

\* handleAskQuestion up to its await, as the function of the render in which
\* currentQuestion was cq and isAskingQuestion was asking
handleAskQuestion(cq, asking) ==
    IF accepts(cq, asking)
    THEN /\ nAsks < MaxAsks
         /\ currentQuestion' = ""
         /\ isAskingQuestion' = TRUE
         /\ qaMessages' = Append(qaMessages, [type |-> "user", content |-> trim[cq]])
         /\ nAsks' = nAsks + 1
         /\ asks' = [asks EXCEPT ![nAsks + 1] = [pc |-> "pending", question |-> trim[cq]]]
    ELSE UNCHANGED <<currentQuestion, isAskingQuestion, qaMessages, nAsks, asks>>

\* the textarea's onChange; the textarea is disabled while a question is pending
TypeQuestion(text) ==
    /\ ~isAskingQuestion
    /\ text # currentQuestion
    /\ currentQuestion' = text
    /\ UNCHANGED <<qaMessages, isAskingQuestion, asks, nAsks, suggestionTimers,
                   nSuggestions>>
    /\ UNCHANGED besideQa

\* the send button or Enter: handleAskQuestion of the current render
SendQuestion ==
    /\ accepts(currentQuestion, isAskingQuestion)
    /\ handleAskQuestion(currentQuestion, isAskingQuestion)
    /\ UNCHANGED <<suggestionTimers, nSuggestions>>
    /\ UNCHANGED besideQa

\* handleSuggestedQuestion(q): the suggestions are rendered while there is no
\* message; the timeout keeps handleAskQuestion of the render of the click
HandleSuggestedQuestion(q) ==
    /\ Len(qaMessages) = 0
    /\ nSuggestions < MaxSuggestions
    /\ currentQuestion' = q
    /\ nSuggestions' = nSuggestions + 1
    /\ suggestionTimers' = [suggestionTimers EXCEPT ![nSuggestions + 1] =
            [active |-> TRUE, question |-> q,
             currentQuestion |-> currentQuestion,
             isAskingQuestion |-> isAskingQuestion]]
    /\ UNCHANGED <<qaMessages, isAskingQuestion, asks, nAsks>>
    /\ UNCHANGED besideQa

\* the 100 ms timeout of click i fires
SuggestionTimeout(i) ==
    /\ suggestionTimers[i].active
    /\ handleAskQuestion(suggestionTimers[i].currentQuestion,
                         suggestionTimers[i].isAskingQuestion)
    /\ suggestionTimers' = [suggestionTimers EXCEPT ![i].active = FALSE]
    /\ UNCHANGED nSuggestions
    /\ UNCHANGED besideQa

\* askQuestion of call k settles: the reply is appended, then the finally block
AskSettle(k, type, content) ==
    /\ asks[k].pc = "pending"
    /\ qaMessages' = Append(qaMessages, [type |-> type, content |-> content])
    /\ isAskingQuestion' = FALSE
    /\ asks' = [asks EXCEPT ![k].pc = "done"]
    /\ UNCHANGED <<currentQuestion, nAsks, suggestionTimers, nSuggestions>>
    /\ UNCHANGED besideQa

AskResolve(k) == AskSettle(k, "ai", "answer")
AskReject(k) == AskSettle(k, "error", ReplyError)

\* the Q&A section of a loaded document has just been opened
InitQa ==
    /\ ProcessingIdle
    /\ SessionIdle
    /\ UploadIdle
    /\ ViewIdle
    /\ DashIdle
    /\ QaIdle

QaNext ==
    \/ \E text \in TypedQuestions : TypeQuestion(text)
    \/ SendQuestion
    \/ \E q \in SuggestedQuestions : HandleSuggestedQuestion(q)
    \/ \E i \in SuggestionIds : SuggestionTimeout(i)
    \/ \E k \in AskIds : AskResolve(k)
    \/ \E k \in AskIds : AskReject(k)

SpecQa == InitQa /\ [][QaNext]_vars

TypeOK ==
    /\ targetProgress \in 0..(100 * Scale)
    /\ smoothProgress \in 0..(100 * Scale)
    /\ highestStepReached \in 0..5

\* ------------------------------------------------------------- claims
\* the step getCurrentStep reports for the current state
displayedStep == getCurrentStep(status, message, highestStepReached)

\* C1: while the component stays mounted, no step lowers targetProgress
C1_TargetNeverDecreases ==
    [][lifecycle' = "mounted" => targetProgress' >= targetProgress]_vars

\* C1 witness: a 'processing' answer arrived after step 3 was reached and
\* after the target had passed the progress of steps 0..2
C1_Witness ==
    /\ Mounted
    /\ status = "processing" /\ message = "processing"
    /\ highestStepReached >= 3
    /\ targetProgress > 40 * Scale

\* C2: while the component stays mounted, no step lowers highestStepReached
C2_RatchetNeverDecreases ==
    [][lifecycle' = "mounted" => highestStepReached' >= highestStepReached]_vars

\* C3: while the step list is rendered (the component is mounted and shows
\* no error), no step lowers the step that getCurrentStep reports
C3_DisplayedStepNeverDrops ==
    [][lifecycle' = "mounted" /\ error = NoError =>
         getCurrentStep(status', message', highestStepReached') >= displayedStep]_vars

\* C3 witness: a stray 'processing' answer after step 3 still shows step 3
C3_Witness ==
    /\ Mounted /\ error = NoError
    /\ status = "processing" /\ message = "processing"
    /\ displayedStep >= 3

\* C4: after a 'completed' answer the loop has scheduled exactly one
\* navigation and sends no further request, and the target is exactly 100
C4_Completed ==
    /\ [](\A l \in LoopIds : loops[l].last = "completed" =>
            loops[l].pc \in {"navwait", "navigated"} /\ loops[l].navs = 1)
    /\ [](Mounted /\ status = "completed" => targetProgress = 100 * Scale)
    /\ [][\A l \in LoopIds : loops[l].last = "completed" =>
            loops'[l].seq = loops[l].seq /\ loops'[l].navs = loops[l].navs]_vars

\* C4 witness: the completed screen with its navigation pending
C4_Witness ==
    /\ Mounted /\ status = "completed" /\ targetProgress = 100 * Scale
    /\ \E l \in LoopIds : loops[l].pc = "navwait" /\ loops[l].last = "completed"

\* C5: after a 'failed' or 'error' answer the error is set, the loop has
\* stopped for good and has scheduled no navigation
C5_Failed ==
    /\ [](\A l \in LoopIds : loops[l].last \in {"failed", "error"} =>
            loops[l].pc = "stopped" /\ loops[l].navs = 0)
    /\ [](Mounted /\ status \in {"failed", "error"} => error # NoError)
    /\ [][\A l \in LoopIds : loops[l].last \in {"failed", "error"} =>
            loops'[l].seq = loops[l].seq]_vars

\* C5 witness: the error screen after a 'failed' answer
C5_Witness ==
    /\ Mounted /\ status = "failed" /\ error = FailedError
    /\ \E l \in LoopIds : loops[l].pc = "stopped" /\ loops[l].last = "failed"

C7_NothingAfterUnmount ==
    [][lifecycle = "unmounted" =>
         nRequests' = nRequests /\ nNavigations' = nNavigations]_vars

\* C8: at most one status request is outstanding, and every outstanding
\* request was sent after the response handled last
C8_Sequential ==
    /\ Cardinality({l \in LoopIds : loops[l].pc = "inflight"}) <= 1
    /\ \A l \in LoopIds : loops[l].pc = "inflight" => loops[l].seq > lastHandled

\* C9: smoothProgress never exceeds targetProgress
C9_SmoothAtMostTarget == smoothProgress <= targetProgress

\* C9 witness: an animation has run to its end
C9_Witness ==
    /\ Mounted /\ smoothProgress = targetProgress /\ targetProgress > 20 * Scale
    /\ ~animation.active

\* C10: when the last change of targetProgress other than a tick of the
\* progress interval is at least the animation duration old, smoothProgress
\* is within 1 of targetProgress
C10_Converged ==
    (Mounted /\ ~FramePending /\ now - jumpAt >= AnimDuration)
        => targetProgress - smoothProgress <= 1 * Scale

\* C11: a tick of the progress interval at which targetProgress is below 99
\* and status is neither 'failed' nor 'completed' raises targetProgress, and
\* a tick that takes the fallback branch leaves it at 99 or below
C11_FallbackTicker ==
    [][(IntervalTick /\ targetProgress < 99 * Scale
                     /\ status \notin {"failed", "completed"})
         => /\ targetProgress' > targetProgress
            /\ (tickProgress(Current, now) <= targetProgress
                  => targetProgress' <= 99 * Scale)]_vars

\* C11 witness: the fallback branch has brought targetProgress to the cap
C11_Witness ==
    /\ Mounted /\ now > StartTime
    /\ status \notin {"failed", "completed"}
    /\ targetProgress = 99 * Scale
    /\ tickProgress(Current, now) <= targetProgress

\* C12: after the k-th answer of the scenario is handled the displayed step
\* is 1, 2, 3, 5, 5 for k = 1..5, and after the last one targetProgress is 100
C12_Scenario ==
    LET steps == <<1, 2, 3, 5, 5>>
    IN  (Mounted /\ lastHandled >= 1) =>
            /\ displayedStep = steps[lastHandled]
            /\ (lastHandled = Len(Scenario) => targetProgress = 100 * Scale)

\* C12 witness: the 'completed' answer of the scenario has been handled
C12_Witness ==
    /\ Mounted /\ lastHandled = Len(Scenario) /\ status = "completed"
    /\ displayedStep = 5 /\ targetProgress = 100 * Scale

\* C13: while the component is mounted, a loop whose last answer was a
\* non-terminal status sends its next request (unless the request budget of
\* the model is used up first), and it sends it exactly when the 2 s timeout
\* is due; a loop whose last answer was 'completed' navigates
C13_PollingGoesOn ==
    /\ \A l \in LoopIds :
          (/\ Mounted
           /\ loops[l].last \in {"uploading", "processing", "analyzing"}
           /\ loops[l].pc # "inflight"
           /\ nRequests < MaxRequests
           /\ now + PollDelay <= StartTime + MaxTime)
          ~> (loops[l].pc = "inflight" \/ nRequests = MaxRequests \/ ~Mounted)
    /\ \A l \in LoopIds :
          (loops[l].last = "completed" /\ now + NavigateDelay <= StartTime + MaxTime)
          ~> (loops[l].pc = "navigated"
                /\ location = [page |-> "document", doc |-> loops[l].doc])
    /\ [][\A l \in LoopIds :
            loops[l].pc = "timer" /\ loops'[l].pc = "inflight" => now = loops[l].due]_vars

\* C13 witness: a loop has sent its next request after a non-terminal answer
C13_Witness ==
    /\ Mounted
    /\ \E l \in LoopIds : /\ loops[l].pc = "inflight"
                          /\ loops[l].last \in {"uploading", "processing", "analyzing"}
                          /\ loops[l].seq >= 2


\* C14: every request sent through the API client carries the header
\* Authorization: Bearer <token>, where <token> is the value stored under
\* 'authToken' in local storage at the time the request is sent.
C14_BearerHeader ==
    request.pending =>
        request.header = [scheme |-> "Bearer", token |-> request.stored]

\* C15: when an API response has HTTP status 401 the stored 'authToken' is
\* removed, the browser is sent to /login and the error is still rejected to the
\* caller; a response error with any other status (or with no response) is
\* rejected too and leaves local storage and the location unchanged.
C15_Unauthorized ==
    [][\A code \in StatusCodes :
          ResponseError(code) =>
              /\ apiOutcome' = "rejected"
              /\ IF code = 401
                 THEN /\ authToken' = NoToken
                      /\ href' = "/login"
                      /\ userEntry' = userEntry
                 ELSE /\ authToken' = authToken
                      /\ userEntry' = userEntry
                      /\ href' = href
                      /\ page' = page]_vars

\* a 401 has been answered to a signed-in user: the page left for /login
C15_Witness ==
    /\ href = "/login"
    /\ authToken = NoToken
    /\ apiOutcome = "rejected"
    /\ userEntry # NoEntry

\* C18: signInWithEmail with an (email, password) pair of the fixed user list
\* sets user, persists it under 'user' and leaves error null; with any other
\* pair it rejects, sets error to 'Invalid email or password' and leaves user
\* and the persisted 'user' entry unchanged; in both cases loading is false
\* when the call settles.
C18_SignInWithEmail ==
    [][(FinishAuth /\ authOp.kind = "signIn") =>
          LET listed == \E u \in mockUsers : /\ u.email = authOp.email
                                             /\ u.password = authOp.password
          IN  /\ loading' = FALSE
              /\ IF listed
                 THEN /\ user'.email = authOp.email
                      /\ user' # NoUser
                      /\ parse(userEntry') = user'
                      /\ authError' = NoError
                      /\ authOutcome' = "resolved"
                 ELSE /\ authOutcome' = "rejected"
                      /\ authError' = InvalidCredentials
                      /\ user' = user
                      /\ userEntry' = userEntry]_vars

\* a sign-in with a wrong password was rejected while another user was signed in
C18_Witness ==
    /\ authOutcome = "rejected"
    /\ authError = InvalidCredentials
    /\ user # NoUser
    /\ userEntry # NoEntry
    /\ ~loading

\* C19: whenever no auth call is under way on a loaded page, the in-memory
\* user is non-null exactly when a 'user' entry is persisted, and both denote
\* the same user; logout leaves user and the persisted entry empty; mounting
\* AuthProvider restores the user of the persisted entry and sets loading to
\* false.
C19_SessionPersistence ==
    /\ []((page = "loaded" /\ authOp = NoOp) =>
              /\ (user # NoUser) <=> (userEntry # NoEntry)
              /\ (userEntry # NoEntry => parse(userEntry) = user)
              /\ ~loading)
    /\ [][/\ (FinishAuth /\ authOp.kind = "logout") =>
                  (user' = NoUser /\ userEntry' = NoEntry /\ ~loading')
          /\ Mount =>
                  (/\ userEntry' = userEntry
                   /\ user' = (IF userEntry = NoEntry THEN NoUser
                                                     ELSE parse(userEntry))
                   /\ ~loading')]_vars

\* a signed-up user is back in memory after the page was loaded again
C19_Witness ==
    /\ page = "loaded"
    /\ authOutcome = "none"
    /\ authOp = NoOp
    /\ user = [email |-> "new@example.com", name |-> "new", provider |-> "email"]
    /\ userEntry # NoEntry

C17_SoftFailures ==
    [][\A l \in LoadIds :
          /\ DeepReject(l) =>
                 /\ deepAnalysis' = NoData
                 /\ viewError' = viewError
                 /\ document' = document
                 /\ document' # NoData
          /\ ItemsReject(l) =>
                 /\ actionItems' = NoData
                 /\ viewError' = viewError
                 /\ document' = document
                 /\ (viewError = NoError =>
                        (~viewLoading' /\ viewError' = NoError /\ document' # NoData))
          /\ DetailsResolve(l, NoData) => viewError' = NotFound
          /\ (\A err \in RequestErrors : DetailsReject(l, err) => viewError' = err)
          /\ (viewError' \notin {viewError, NoError} =>
                 \E k \in LoadIds : loads[k].pc = "details" /\ loads'[k].pc = "done")
          /\ ((loads[l].pc # "done" /\ loads'[l].pc = "done") => ~viewLoading')]_vars

\* the document is on screen although neither its deep analysis nor its action
\* items could be fetched
C17_Witness ==
    /\ nLoads = 1
    /\ loads[1].pc = "done"
    /\ document = dataOf("d1", "document")
    /\ deepAnalysis = NoData
    /\ actionItems = NoData
    /\ viewError = NoError
    /\ ~viewLoading

C21_LastFetchShown ==
    (/\ \A l \in 1..nLoads : loads[l].pc = "done"
     /\ viewError = NoError
     /\ ~viewLoading)
    => /\ document.doc = viewDocId
       /\ (deepAnalysis # NoData => deepAnalysis.doc = viewDocId)
       /\ (actionItems # NoData => actionItems.doc = viewDocId)

\* C22: the step index the progress view displays is an index of one of the
\* five processing steps: getCurrentStep is at most 4, so the label
\* 'Step N of 5', shown while status is not 'completed', never has N > 5.
C22_StepWithinSteps ==
    (Mounted /\ error = NoError /\ status # "completed") =>
        /\ getCurrentStep(status, message, highestStepReached) <= 4
        /\ getCurrentStep(status, message, highestStepReached) + 1 <= 5

\* C23: a document leaves the dashboard's list only in the step in which a
\* deleteDocument call for it succeeds; when the call fails the list is
\* unchanged; after either outcome the delete modal is closed with documentId
\* null and isLoading false, and no further request is issued.
C23_DeleteAfterSuccess ==
    [][/\ \A k \in DeleteIds :
              /\ DeleteResolve(k) =>
                     /\ \A i \in 1..Len(documents') : documents'[i] # deletes[k].doc
                     /\ Len(documents') = Len(documents)
                          - (IF \E i \in 1..Len(documents) :
                                   documents[i] = deletes[k].doc THEN 1 ELSE 0)
                     /\ deleteModal' = ClosedModal
                     /\ nDeletes' = nDeletes
              /\ DeleteReject(k) =>
                     /\ documents' = documents
                     /\ deleteModal' = ClosedModal
                     /\ nDeletes' = nDeletes
       /\ documents' # documents =>
              \E k \in DeleteIds : /\ deletes[k].pc = "pending"
                                   /\ deletes'[k].pc = "resolved"]_vars

\* one delete failed and left the list alone, a later one succeeded
C23_Witness ==
    /\ deletes[1].pc = "rejected"
    /\ deletes[2].pc = "resolved"
    /\ documents = <<"d1", "d3">>
    /\ deleteModal = ClosedModal
    /\ deleteAlerts = 1

\* C24: a question is accepted only while no question is pending, so at most
\* one askQuestion request is outstanding; the chat is a sequence of pairs, one
\* user message followed by one reply of type 'ai' or 'error', with one request
\* per user message; isAskingQuestion is true exactly while a reply is awaited.
C24_OneQuestionAtATime ==
    LET pending == {k \in AskIds : asks[k].pc = "pending"}
        settled == {k \in AskIds : asks[k].pc = "done"}
    IN  /\ Cardinality(pending) <= 1
        /\ isAskingQuestion <=> pending # {}
        /\ Len(qaMessages) = 2 * Cardinality(settled) + Cardinality(pending)
        /\ \A i \in 1..Len(qaMessages) :
               IF i % 2 = 1 THEN qaMessages[i].type = "user"
                            ELSE qaMessages[i].type \in {"ai", "error"}

\* C30: when the timeout of a click on a suggested question q fires, an
\* askQuestion request with question q is issued and a user message with
\* content q is appended, whatever the input held before the click.
C30_SuggestedQuestionSent ==
    [][\A i \in SuggestionIds :
          (SuggestionTimeout(i) /\ nAsks < MaxAsks /\ ~isAskingQuestion) =>
              /\ nAsks' = nAsks + 1
              /\ asks'[nAsks'].question = suggestionTimers[i].question
              /\ qaMessages' = Append(qaMessages,
                                      [type |-> "user",
                                       content |-> suggestionTimers[i].question])]_vars

\* C25: in every state where status is not 'completed', targetProgress is at
\* most 99.
C25_HundredOnlyWhenCompleted ==
    (Mounted /\ status # "completed") => targetProgress <= 99 * Scale

\* C26: once a 401 response has sent the browser to /login, the app stays on
\* the login page until a sign-in or sign-up succeeds.
C26_StaysOnLogin ==
    [][(href = "/login" /\ href' # "/login") =>
          /\ FinishAuth
          /\ authOp.kind \in {"signIn", "signUp", "google"}
          /\ authOutcome' = "resolved"]_vars

\* C27: a protected page is on screen only when user is non-null and loading
\* is false; while loading is true its route shows a spinner; when loading is
\* false and user is null the router is at /login.
C27_RouteProtection ==
    page = "loaded" =>
        /\ (routeElement(href, user, loading) \in {"Dashboard", "DocumentView", "ProcessingScreen"}
               => (user # NoUser /\ ~loading))
        /\ ((loading /\ href \in ProtectedPaths)
               => routeElement(href, user, loading) = "spinner")
        /\ ((~loading /\ user = NoUser) => href = "/login")
        /\ ((~loading /\ user # NoUser /\ href \in ProtectedPaths)
               => routeElement(href, user, loading) = pageOf[href])

\* a logout is under way on the document page: its route shows the spinner
C27_Witness ==
    /\ page = "loaded"
    /\ href = "/document/d1"
    /\ loading
    /\ user # NoUser
    /\ authOp.kind = "logout"

\* C28: signUpWithEmail with an email that is not in the fixed user list
\* succeeds every time, also when the same email has signed up before; and
\* signInWithEmail with an email whose sign-up has succeeded is still rejected
\* with 'Invalid email or password'.
C28_SignUpRegistersNothing ==
    [][/\ (/\ FinishAuth
            /\ authOp.kind = "signUp"
            /\ \A u \in mockUsers : u.email # authOp.email)
           => /\ authOutcome' = "resolved"
              /\ user'.email = authOp.email
              /\ authError' = NoError
       /\ (/\ FinishAuth
            /\ authOp.kind = "signIn"
            /\ authOp.email \in authHistory.signUps)
           => /\ authOutcome' = "rejected"
              /\ authError' = InvalidCredentials
              /\ user' = user]_vars

\* new@example.com has signed up and logged out, and its sign-in was rejected
C28_Witness ==
    /\ "new@example.com" \in authHistory.signUps
    /\ authHistory.settled.kind = "signIn"
    /\ authHistory.settled.email = "new@example.com"
    /\ authOutcome = "rejected"
    /\ authError = InvalidCredentials
    /\ user = NoUser
    /\ userEntry = NoEntry

\* C29: while an upload request is pending uploadProgress is at most 90; after
\* a failed upload, until the next one starts, uploading is false,
\* uploadProgress is 0 and no progress timer is running.
C29_UploadProgress ==
    /\ (uploadOutcome = "pending" => uploadProgress <= 90)
    /\ (uploadOutcome = "failed" =>
           /\ ~uploading
           /\ uploadProgress = 0
           /\ \A u \in UploadIds : ~progressIntervals[u])

====
